---- MODULE Spec2Model ----
(***************************************************************************)
(* Maternal Health Tracking System (src/src/index.ts): the five stable     *)
(* maps, the POST /maternal-profiles, POST /health-metrics and             *)
(* GET /maternal-profiles handlers and the helpers they call.              *)
(*                                                                         *)
(* A JavaScript value that may be undefined is a sequence: <<>> is         *)
(* undefined (the property is absent), <<v>> is the value v.               *)
(*                                                                         *)
(* The instants read from ic.time() (createdAt, lastUpdated, recordedAt)   *)
(* and the free-text fields no handler looks at (emergencyContact, weight, *)
(* fetalHeartRate, notes, allergies) are left out of the records: they are *)
(* written once with the record and never read back by a handler.          *)
(***************************************************************************)
EXTENDS Integers, Sequences, FiniteSets

VARIABLES
    maternalProfileStorage, \* id -> MaternalProfile            (index.ts:99)
    providerStorage,        \* id -> HealthcareProvider         (index.ts:100)
    metricsStorage,         \* id -> HealthMetrics              (index.ts:101)
    alertStorage,           \* id -> HealthAlert                (index.ts:103)
    accepted,               \* how many POST requests passed the checks
    pc,                     \* position of the POST /health-metrics handler
    metrics,                \* the handler's local `metrics` (index.ts:215)
    response                \* the last response sent

vars == <<maternalProfileStorage, providerStorage, metricsStorage,
          alertStorage, accepted, pc, metrics, response>>

stores == <<maternalProfileStorage, providerStorage, metricsStorage,
            alertStorage>>

----------------------------------------------------------------------------
(* Bounds of the model *)

MaxAccepted == 3    \* at most MaxAccepted POST requests pass the checks
MaxPage     == 2    \* ?page= and ?limit= range over -1..MaxPage

----------------------------------------------------------------------------
(* JavaScript values *)

Undefined == <<>>
Some(v)   == <<v>>
IsDefined(x) == x # Undefined

\* x && ... on an optional number: undefined and 0 are falsy
Truthy(x) == IsDefined(x) /\ x[1] # 0

\* relational operators with an undefined operand are false (NaN)
Lt(x, n) == IsDefined(x) /\ x[1] < n
Gt(x, n) == IsDefined(x) /\ x[1] > n
Ge(x, n) == IsDefined(x) /\ x[1] >= n

\* `default, ...req.body`: the body's property wins when it is present
Spread(default, bodyField) == IF IsDefined(bodyField) THEN bodyField[1] ELSE default

Min(a, b) == IF a < b THEN a ELSE b
Max(a, b) == IF a > b THEN a ELSE b

EmptyMap == [x \in {} |-> x]

\* StableBTreeMap.insert: adds the key or replaces its value
Insert(map, key, value) ==
    [k \in DOMAIN map \cup {key} |-> IF k = key THEN value ELSE map[k]]

\* StableBTreeMap.values(): the values in ascending key order
RECURSIVE ValuesFrom(_, _)
ValuesFrom(map, keys) ==
    IF keys = {} THEN <<>>
    ELSE LET k == CHOOSE x \in keys : \A y \in keys : x <= y
         IN  <<map[k]>> \o ValuesFrom(map, keys \ {k})
Values(map) == ValuesFrom(map, DOMAIN map)

\* Array.prototype.slice(start, end)
RelIndex(i, len) == IF i < 0 THEN Max(len + i, 0) ELSE Min(i, len)
Slice(s, start, end) ==
    LET from == RelIndex(start, Len(s))
        to   == RelIndex(end, Len(s))
    IN  IF from >= to THEN <<>> ELSE SubSeq(s, from + 1, to)

----------------------------------------------------------------------------
(* Enums and constants *)

LOW    == "LOW"
MEDIUM == "MEDIUM"
HIGH   == "HIGH"
RiskLevel == {LOW, MEDIUM, HIGH}

NANOS_PER_MILLISECOND == 1000000

NoResponse ==
    [op |-> "none", status |-> 0, error |-> "", data |-> <<>>,
     page |-> 0, limit |-> 0, total |-> 0]

ErrorResponse(op, status, error) ==
    [NoResponse EXCEPT !.op = op, !.status = status, !.error = error]

----------------------------------------------------------------------------
(* Validation layer *)

Null == <<>>

\* A string is described by what the handlers look at: `angle` counts its
\* '<' and '>' characters, `pad` its leading and trailing whitespace and
\* `core` the characters between, so length = core + pad + angle and
\* trim().length = core + angle.
Length(str)     == str.core + str.pad + str.angle
TrimLength(str) == str.core + str.angle

sanitizeString(input) == [input EXCEPT !.angle = 0]

BloodTypes == {"A+", "A-", "B+", "B-", "AB+", "AB-", "O+", "O-"}

validateProfile(profile) ==
    IF \/ ~IsDefined(profile.name)
       \/ Length(profile.name[1]) = 0
       \/ TrimLength(profile.name[1]) < 2
       \/ Length(profile.name[1]) > 100
    THEN Some("Name must be between 2 and 100 characters")
    ELSE IF /\ IsDefined(profile.medicalHistory)
            /\ \E i \in DOMAIN profile.medicalHistory[1] :
                   profile.medicalHistory[1][i] > 1000
    THEN Some("Medical history entries cannot exceed 1000 characters")
    ELSE IF ~Truthy(profile.age) \/ Lt(profile.age, 16) \/ Gt(profile.age, 60)
    THEN Some("Age must be between 16 and 60")
    ELSE IF \/ ~IsDefined(profile.bloodType)
            \/ profile.bloodType[1] \notin BloodTypes
    THEN Some("Invalid blood type")
    ELSE Null

validateHealthMetrics(m) ==
    IF /\ Truthy(m.bloodPressureSystolic)
       /\ (Lt(m.bloodPressureSystolic, 70) \/ Gt(m.bloodPressureSystolic, 190))
    THEN Some("Invalid systolic blood pressure range")
    ELSE IF /\ Truthy(m.bloodPressureDiastolic)
            /\ (Lt(m.bloodPressureDiastolic, 40) \/ Gt(m.bloodPressureDiastolic, 120))
    THEN Some("Invalid diastolic blood pressure range")
    ELSE IF /\ Truthy(m.bloodSugar)
            /\ (Lt(m.bloodSugar, 30) \/ Gt(m.bloodSugar, 500))
    THEN Some("Invalid blood sugar range")
    ELSE Null

----------------------------------------------------------------------------
(* Risk classifier *)

assessRiskStrict(m) ==
    \/ Gt(m.bloodPressureSystolic, 140)
    \/ Ge(m.bloodPressureDiastolic, 90)
    \/ Gt(m.bloodSugar, 140)
    \/ Lt(m.hemoglobinLevels, 9)

assessRisk(m) ==
    \/ Ge(m.bloodPressureSystolic, 140)
    \/ Ge(m.bloodPressureDiastolic, 90)
    \/ Gt(m.bloodSugar, 140)
    \/ Lt(m.hemoglobinLevels, 9)

----------------------------------------------------------------------------
(* Serialisation: an instant at rest is in nanoseconds, in a response it is *)
(* the ISO-8601 rendering of its whole milliseconds.                        *)

ToISOString(nanos) == nanos \div NANOS_PER_MILLISECOND

serializeProfile(profile) ==
    [profile EXCEPT !.dueDate = ToISOString(profile.dueDate)]

----------------------------------------------------------------------------
(* Identifiers *)

\* uuidv4() for a new entry of `map`: an id that is no key of it. No entry
\* is ever removed and ids are only compared within one map, so the ids of
\* a map are numbered in the order they are issued.
uuidv4(map) == Cardinality(DOMAIN map) + 1

\* An id a request body may carry: none, or one a response has given out.
ClientIds(map) == {Undefined} \cup {Some(x) : x \in DOMAIN map}

\* "prov3" names no provider
ProviderIds == {"prov1", "prov2", "prov3"}

----------------------------------------------------------------------------
(* POST /maternal-profiles *)

Str(core, pad, angle) == [core |-> core, pad |-> pad, angle |-> angle]

BaseProfileBody ==
    [id |-> Undefined, name |-> Some(Str(2, 0, 1)), age |-> Some(16),
     bloodType |-> Some("A+"), medicalHistory |-> Undefined,
     primaryCareProviderId |-> Some("prov1"), riskLevel |-> Undefined,
     dueDate |-> Some(5)]

\* The bodies of a request: the valid body, and the valid body with one
\* field changed.
ProfileBodies ==
    {BaseProfileBody}
    \cup {[BaseProfileBody EXCEPT !.primaryCareProviderId = pr] :
        pr \in {Undefined} \cup {Some(x) : x \in ProviderIds}}
    \cup {[BaseProfileBody EXCEPT !.riskLevel = Some(HIGH)]}
    \cup {[BaseProfileBody EXCEPT !.id = i] : i \in ClientIds(maternalProfileStorage)}
    \cup {[BaseProfileBody EXCEPT !.name = n] :
        n \in {Undefined, Some(Str(0, 0, 0)), Some(Str(1, 3, 0)), Some(Str(0, 0, 2)),
               Some(Str(2, 99, 0))}}
    \cup {[BaseProfileBody EXCEPT !.age = a] :
        a \in {Undefined, Some(0), Some(15), Some(61)}}
    \cup {[BaseProfileBody EXCEPT !.bloodType = t] : t \in {Undefined, Some("C+")}}
    \cup {[BaseProfileBody EXCEPT !.medicalHistory = h] : h \in {Some(<<10, 1001>>)}}
    \cup {[BaseProfileBody EXCEPT !.dueDate = Undefined]}

DefaultRiskLevel == LOW

\* lines 181-192
NewProfile(id, body) ==
    [id                    |-> Spread(id, body.id),
     currentTrimester      |-> "FIRST",
     riskLevel             |-> Spread(DefaultRiskLevel, body.riskLevel),
     medicalHistory        |-> Spread(<<>>, body.medicalHistory),
     isHighRiskPregnancy   |-> FALSE,
     name                  |-> body.name[1],
     age                   |-> body.age[1],
     bloodType             |-> body.bloodType[1],
     primaryCareProviderId |-> body.primaryCareProviderId[1],
     dueDate               |-> body.dueDate[1] * NANOS_PER_MILLISECOND]

\* lines 159-164: the body with its strings sanitized
SanitizedBody(body) ==
    IF IsDefined(body.name) /\ Length(body.name[1]) > 0
    THEN [body EXCEPT !.name = Some(sanitizeString(body.name[1]))]
    ELSE body

ProviderIsActiveAlways(provider) == TRUE

\* line 177
ProviderIsActive(provider) == provider.isActive

\* lines 166-179: the request ends before a profile is built
Refused(body) ==
    \/ validateProfile(body) # Null
    \/ ~IsDefined(body.primaryCareProviderId)
    \/ body.primaryCareProviderId[1] \notin DOMAIN providerStorage
    \/ ~ProviderIsActive(providerStorage[body.primaryCareProviderId[1]])

CreateProfile(reqBody) ==
    LET body == SanitizedBody(reqBody)
        validationError == validateProfile(body)
        op == "CreateProfile"
    IN
    /\ pc = "idle"
    /\ UNCHANGED <<providerStorage, metricsStorage, alertStorage, pc, metrics>>
    /\ IF Refused(body) THEN UNCHANGED accepted
       ELSE accepted < MaxAccepted /\ accepted' = accepted + 1
    /\ IF validationError # Null
       THEN /\ response' = ErrorResponse(op, 400, validationError[1])
            /\ UNCHANGED maternalProfileStorage
       ELSE IF \/ ~IsDefined(body.primaryCareProviderId)
               \/ body.primaryCareProviderId[1] \notin DOMAIN providerStorage
       THEN /\ response' = ErrorResponse(op, 404, "Healthcare provider not found")
            /\ UNCHANGED maternalProfileStorage
       ELSE IF ~ProviderIsActive(providerStorage[body.primaryCareProviderId[1]])
       THEN /\ response' = ErrorResponse(op, 400, "Selected healthcare provider is not active")
            /\ UNCHANGED maternalProfileStorage
       ELSE IF ~IsDefined(body.dueDate)
       THEN \* uuidv4() is called, then BigInt(NaN) throws; the catch answers 500
            /\ response' = ErrorResponse(op, 500, "Internal server error")
            /\ UNCHANGED maternalProfileStorage
       ELSE LET profile == NewProfile(uuidv4(maternalProfileStorage), body) IN
            /\ maternalProfileStorage' =
                   Insert(maternalProfileStorage, profile.id, profile)
            /\ response' = [NoResponse EXCEPT !.op = op, !.status = 200,
                                              !.data = <<serializeProfile(profile)>>]

----------------------------------------------------------------------------
(* GET /maternal-profiles *)

\* parseInt(...) || dflt: NaN (<<>>) and 0 give the default
ParseOr(query, dflt) == IF Truthy(query) THEN query[1] ELSE dflt

Queries == {Undefined} \cup {Some(n) : n \in -1..MaxPage}

SerializeAll(seq) == [i \in DOMAIN seq |-> serializeProfile(seq[i])]

SkipZeroBased(page, limit) == page * limit

\* line 330
Skip(page, limit) == (page - 1) * limit

ListProfiles(queryPage, queryLimit) ==
    LET page  == ParseOr(queryPage, 1)
        limit == ParseOr(queryLimit, 10)
        skip  == Skip(page, limit)
        profiles == SerializeAll(Slice(Values(maternalProfileStorage), skip, skip + limit))
    IN
    /\ pc = "idle"
    /\ response' = [op |-> "ListProfiles", status |-> 200, error |-> "",
                    data |-> profiles, page |-> page, limit |-> limit,
                    total |-> Cardinality(DOMAIN maternalProfileStorage)]
    /\ UNCHANGED <<stores, accepted, pc, metrics>>

----------------------------------------------------------------------------
(* POST /health-metrics *)

Readings(systolic, diastolic, sugar, hemoglobin) ==
    [bloodPressureSystolic  |-> systolic, bloodPressureDiastolic |-> diastolic,
     bloodSugar |-> sugar, hemoglobinLevels |-> hemoglobin]

NormalReadings == Readings(Some(120), Some(80), Some(100), Some(12))
HighReadings   == Readings(Some(150), Some(95), Some(100), Some(12))

\* readings validateHealthMetrics lets through
AcceptedReadings ==
    {NormalReadings, HighReadings,
     Readings(Some(0), Some(0), Some(0), Some(12))}

\* readings validateHealthMetrics refuses
RefusedReadings ==
    {Readings(Some(69), Some(80), Some(100), Some(12)),
     Readings(Some(191), Some(80), Some(100), Some(12)),
     Readings(Some(120), Some(39), Some(100), Some(12)),
     Readings(Some(120), Some(121), Some(100), Some(12)),
     Readings(Some(120), Some(80), Some(29), Some(12)),
     Readings(Some(120), Some(80), Some(501), Some(12))}

MetricsBody(id, profileId, readings, recordedById, flag) ==
    [id |-> id, maternalProfileId |-> profileId,
     bloodPressureSystolic  |-> readings.bloodPressureSystolic,
     bloodPressureDiastolic |-> readings.bloodPressureDiastolic,
     bloodSugar             |-> readings.bloodSugar,
     hemoglobinLevels       |-> readings.hemoglobinLevels,
     recordedById |-> recordedById, isFlaggedForReview |-> flag]

\* The bodies of a request: for each profile id, every reading with the
\* other fields at their usual value, and the normal and the high reading
\* with each one of id, isFlaggedForReview and recordedById changed.
MetricsBodies ==
    UNION {
        {MetricsBody(Undefined, p, r, Some("prov1"), Undefined) :
            r \in AcceptedReadings \cup RefusedReadings}
        \cup {MetricsBody(id, p, r, Some("prov1"), Undefined) :
            id \in ClientIds(metricsStorage), r \in {NormalReadings, HighReadings}}
        \cup {MetricsBody(Undefined, p, r, Some("prov1"), Some(TRUE)) :
            r \in {NormalReadings, HighReadings}}
        \cup {MetricsBody(Undefined, p, HighReadings, Undefined, Undefined)}
      : p \in ClientIds(maternalProfileStorage)}

\* lines 215-220
NewMetrics(id, body) ==
    [id                     |-> Spread(id, body.id),
     isFlaggedForReview     |-> Spread(FALSE, body.isFlaggedForReview),
     maternalProfileId      |-> body.maternalProfileId[1],
     bloodPressureSystolic  |-> body.bloodPressureSystolic,
     bloodPressureDiastolic |-> body.bloodPressureDiastolic,
     bloodSugar             |-> body.bloodSugar,
     hemoglobinLevels       |-> body.hemoglobinLevels,
     recordedById           |-> body.recordedById]

NewAlertLevelZero(id, m) ==
    [id                |-> id,
     maternalProfileId |-> m.maternalProfileId,
     severity          |-> HIGH,
     description       |-> "Abnormal health metrics detected",
     recommendedAction |-> "Immediate medical review required",
     resolved          |-> FALSE,
     resolvedAt        |-> Null,
     providerId        |-> m.recordedById,
     escalationLevel   |-> 0]

NewAlertWrongOwner(id, m) ==
    [id                |-> id,
     maternalProfileId |-> m.id,
     severity          |-> HIGH,
     description       |-> "Abnormal health metrics detected",
     recommendedAction |-> "Immediate medical review required",
     resolved          |-> FALSE,
     resolvedAt        |-> Null,
     providerId        |-> m.recordedById,
     escalationLevel   |-> 1]

\* lines 248-259
NewAlert(id, m) ==
    [id                |-> id,
     maternalProfileId |-> m.maternalProfileId,
     severity          |-> HIGH,
     description       |-> "Abnormal health metrics detected",
     recommendedAction |-> "Immediate medical review required",
     resolved          |-> FALSE,
     resolvedAt        |-> Null,
     providerId        |-> m.recordedById,
     escalationLevel   |-> 1]

\* the open alerts of a profile
OpenAlerts(alerts, profileId) ==
    {a \in DOMAIN alerts :
        alerts[a].maternalProfileId = profileId /\ ~alerts[a].resolved}

\* createHighRiskAlert as an escalating alert manager would have it: an open
\* alert of the profile is escalated (up to 3) and no second one is created
createHighRiskAlertEscalating(m) ==
    LET open == OpenAlerts(alertStorage, m.maternalProfileId) IN
    IF open = {}
    THEN LET alert == NewAlert(uuidv4(alertStorage), m)
         IN  Insert(alertStorage, alert.id, alert)
    ELSE LET a == CHOOSE x \in open : TRUE IN
         [alertStorage EXCEPT ![a].escalationLevel = Min(@ + 1, 3)]

\* the alert store after createHighRiskAlert(m)
createHighRiskAlert(m) ==
    LET alert == NewAlert(uuidv4(alertStorage), m)
    IN  Insert(alertStorage, alert.id, alert)

\* lines 205-227: up to and including the risk assessment
RecordMetrics(body) ==
    LET validationError == validateHealthMetrics(body)
        op == "RecordMetrics"
        m  == NewMetrics(uuidv4(metricsStorage), body)
        isHighRisk == assessRisk(m)
    IN
    /\ pc = "idle"
    /\ UNCHANGED <<maternalProfileStorage, providerStorage, metricsStorage>>
    /\ IF \/ ~IsDefined(body.maternalProfileId)
          \/ body.maternalProfileId[1] \notin DOMAIN maternalProfileStorage
       THEN /\ response' = ErrorResponse(op, 404, "Maternal profile not found")
            /\ UNCHANGED <<alertStorage, accepted, pc, metrics>>
       ELSE IF validationError # Null
       THEN /\ response' = ErrorResponse(op, 400, validationError[1])
            /\ UNCHANGED <<alertStorage, accepted, pc, metrics>>
       ELSE /\ accepted < MaxAccepted
            /\ accepted' = accepted + 1
            /\ IF isHighRisk
               THEN /\ metrics' = Some([m EXCEPT !.isFlaggedForReview = TRUE])
                    /\ alertStorage' = createHighRiskAlert(metrics'[1])
               ELSE /\ metrics' = Some(m)
                    /\ UNCHANGED alertStorage
            /\ pc' = "insert"
            /\ UNCHANGED response

\* lines 229-230 as a risk synchronizer would have them: the owning profile's
\* riskLevel follows the verdict
StoreMetricsSyncingRisk ==
    /\ pc = "insert"
    /\ metricsStorage' = Insert(metricsStorage, metrics[1].id, metrics[1])
    /\ maternalProfileStorage' =
           [maternalProfileStorage EXCEPT ![metrics[1].maternalProfileId].riskLevel =
               IF assessRisk(metrics[1]) THEN HIGH ELSE LOW]
    /\ response' = [NoResponse EXCEPT !.op = "RecordMetrics", !.status = 200,
                                      !.data = <<metrics[1]>>]
    /\ pc' = "idle"
    /\ metrics' = Undefined
    /\ UNCHANGED <<providerStorage, alertStorage, accepted>>

\* lines 229-230
StoreMetrics ==
    /\ pc = "insert"
    /\ metricsStorage' = Insert(metricsStorage, metrics[1].id, metrics[1])
    /\ response' = [NoResponse EXCEPT !.op = "RecordMetrics", !.status = 200,
                                      !.data = <<metrics[1]>>]
    /\ pc' = "idle"
    /\ metrics' = Undefined
    /\ UNCHANGED <<maternalProfileStorage, providerStorage, alertStorage, accepted>>

----------------------------------------------------------------------------
(* The system *)

\* The stable memory the canister starts on: no profile, metrics or alert;
\* stable memory 1 is empty or holds providers (no handler writes it).
Providers ==
    [id \in {"prov1", "prov2"} |->
        [id |-> id, isActive |-> (id = "prov1")]]

ProviderStores == {EmptyMap, Providers}

Init ==
    /\ maternalProfileStorage = EmptyMap
    /\ providerStorage \in ProviderStores
    /\ metricsStorage = EmptyMap
    /\ alertStorage = EmptyMap
    /\ accepted = 0
    /\ pc = "idle"
    /\ metrics = Undefined
    /\ response = NoResponse

Next ==
    \/ \E body \in ProfileBodies : CreateProfile(body)
    \/ \E body \in MetricsBodies : RecordMetrics(body)
    \/ StoreMetrics
    \/ \E page \in Queries, limit \in Queries : ListProfiles(page, limit)

Spec == Init /\ [][Next]_vars

----------------------------------------------------------------------------
(* The risk classifier on its own: assessRisk applied to one snapshot *)

SystolicValues   == {Undefined, Some(0), Some(139), Some(140), Some(190)}
DiastolicValues  == {Undefined, Some(89), Some(90)}
SugarValues      == {Undefined, Some(140), Some(141)}
HemoglobinValues == {Undefined, Some(8), Some(9)}

Snapshots ==
    {NewMetrics(1, MetricsBody(Undefined, Some(p), Readings(sys, dia, sugar, hb),
                               Some("prov1"), flag)) :
        p \in {1, 2}, sys \in SystolicValues, dia \in DiastolicValues,
        sugar \in SugarValues, hb \in HemoglobinValues,
        flag \in {Undefined, Some(TRUE)}}

InitAssess ==
    /\ maternalProfileStorage = EmptyMap
    /\ providerStorage = EmptyMap
    /\ metricsStorage = EmptyMap
    /\ alertStorage = EmptyMap
    /\ accepted = 0
    /\ pc = "assess"
    /\ metrics \in {Some(m) : m \in Snapshots}
    /\ response = NoResponse

\* line 223
Assess ==
    /\ pc = "assess"
    /\ pc' = "assessed"
    /\ response' = [NoResponse EXCEPT !.op = "assessRisk",
                                      !.data = <<assessRisk(metrics[1])>>]
    /\ UNCHANGED <<stores, accepted, metrics>>

SpecAssess == InitAssess /\ [][Assess]_vars

----------------------------------------------------------------------------
(* Properties *)

Snapshot(id) == metricsStorage[id]
Alert(id)    == alertStorage[id]
Profile(id)  == maternalProfileStorage[id]

HasHighAlert(profileId) ==
    \E a \in DOMAIN alertStorage :
        /\ Alert(a).maternalProfileId = profileId
        /\ Alert(a).severity = HIGH

\* C1: every stored snapshot the classifier rates HIGH has an alert of
\* severity HIGH for the same profile, and so has the snapshot the handler
\* is about to store: the alert is stored no later than the snapshot.
C1_HighSnapshotHasAlert ==
    /\ \A id \in DOMAIN metricsStorage :
          assessRisk(Snapshot(id)) => HasHighAlert(Snapshot(id).maternalProfileId)
    /\ (pc = "insert" /\ assessRisk(metrics[1]))
          => HasHighAlert(metrics[1].maternalProfileId)

\* a HIGH snapshot is stored for the second profile
C1_Witness ==
    \E id \in DOMAIN metricsStorage :
        assessRisk(Snapshot(id)) /\ Snapshot(id).maternalProfileId = 2

HighRiskStep == pc = "idle" /\ pc' = "insert" /\ assessRisk(metrics'[1])

C3_FlaggedIffHigh ==
    \A id \in DOMAIN metricsStorage :
        Snapshot(id).isFlaggedForReview <=> assessRisk(Snapshot(id))

\* the last response is that of a successful RecordMetrics
Recorded == response.op = "RecordMetrics" /\ response.status = 200

Verdict(m) == IF assessRisk(m) THEN HIGH ELSE LOW

ProviderInactive(body) ==
    /\ IsDefined(body.primaryCareProviderId)
    /\ body.primaryCareProviderId[1] \in DOMAIN providerStorage
    /\ ~providerStorage[body.primaryCareProviderId[1]].isActive

NotActiveResponse ==
    ErrorResponse("CreateProfile", 400, "Selected healthcare provider is not active")

\* C5: CreateProfile with a valid body that names an inactive provider
\* answers with the "not active" error and changes no store; every stored
\* profile names a provider that is stored and active.
C5_InactiveProviderRefused ==
    /\ [][response'.op = "CreateProfile" =>
            \A body \in ProfileBodies :
                (/\ ProviderInactive(body)
                 /\ validateProfile(SanitizedBody(body)) = Null
                 /\ CreateProfile(body))
                => (response' = NotActiveResponse /\ UNCHANGED stores)
         ]_vars
    /\ [](\A p \in DOMAIN maternalProfileStorage :
             /\ Profile(p).primaryCareProviderId \in DOMAIN providerStorage
             /\ providerStorage[Profile(p).primaryCareProviderId].isActive)

\* a request naming the inactive provider was refused while a profile is
\* stored
C5_Witness ==
    /\ response = NotActiveResponse
    /\ maternalProfileStorage # EmptyMap

InRange(x, lo, hi) == IsDefined(x) => (lo <= x[1] /\ x[1] <= hi)

\* C6 as claimed: every stored snapshot that carries a systolic, diastolic
\* or blood sugar value (the value 0 included) has it inside its range.
C6_StoredReadingsInRange ==
    \A id \in DOMAIN metricsStorage :
        /\ InRange(Snapshot(id).bloodPressureSystolic, 70, 190)
        /\ InRange(Snapshot(id).bloodPressureDiastolic, 40, 120)
        /\ InRange(Snapshot(id).bloodSugar, 30, 500)

\* C7 as claimed: the entry stored under a snapshot id keeps its owning
\* profile, its readings and its recordedById; only isFlaggedForReview may
\* change.
C7_SnapshotImmutable ==
    [][\A id \in DOMAIN metricsStorage :
          /\ id \in DOMAIN metricsStorage'
          /\ [metricsStorage'[id] EXCEPT !.isFlaggedForReview = FALSE]
                = [metricsStorage[id] EXCEPT !.isFlaggedForReview = FALSE]
      ]_vars

Reading(x) == x[1]

\* C8: the classifier answers HIGH (true) exactly when systolic >= 140 or
\* diastolic >= 90 or blood sugar > 140 or hemoglobin < 9, a reading that is
\* absent triggering nothing, whatever the snapshot's other fields are.
C8_ClassifierThresholds ==
    pc = "assessed" =>
        LET m == metrics[1] IN
        response.data[1] <=>
            \/ (m.bloodPressureSystolic # <<>> /\ Reading(m.bloodPressureSystolic) >= 140)
            \/ (m.bloodPressureDiastolic # <<>> /\ Reading(m.bloodPressureDiastolic) >= 90)
            \/ (m.bloodSugar # <<>> /\ Reading(m.bloodSugar) > 140)
            \/ (m.hemoglobinLevels # <<>> /\ Reading(m.hemoglobinLevels) < 9)

\* systolic 140 alone was rated HIGH
C8_Witness ==
    /\ pc = "assessed"
    /\ response.data[1]
    /\ metrics[1].bloodPressureSystolic = <<140>>
    /\ metrics[1].bloodPressureDiastolic = <<89>>
    /\ metrics[1].bloodSugar = <<140>>
    /\ metrics[1].hemoglobinLevels = <<9>>

Listed == response.op = "ListProfiles" /\ response.page >= 1 /\ response.limit >= 1

\* C9: with N profiles stored and page >= 1, limit >= 1, ListProfiles answers
\* total = N and the profiles at the positions (page-1)*limit+1 .. page*limit
\* of the scan, min(limit, max(0, N - (page-1)*limit)) of them, and changes no
\* store.
C9_ListProfilesPage ==
    /\ [](Listed =>
            LET N     == Cardinality(DOMAIN maternalProfileStorage)
                first == (response.page - 1) * response.limit
                scan  == Values(maternalProfileStorage)
            IN  /\ response.total = N
                /\ Len(response.data) = Min(response.limit, Max(0, N - first))
                /\ \A i \in 1..Len(response.data) :
                      response.data[i] = serializeProfile(scan[first + i]))
    /\ [][(response'.op = "ListProfiles" /\ stores' # stores) =>
            \A page \in Queries, limit \in Queries : ~ListProfiles(page, limit)]_vars

\* page 2 of 3 profiles, 2 to a page: one profile, total 3
C9_Witness ==
    /\ Listed
    /\ response.page = 2
    /\ response.limit = 2
    /\ response.total = 3
    /\ Len(response.data) = 1

\* C10: an alert's escalationLevel is in 1..3, does not decrease while the
\* alert is open and does not change once it is resolved; a new alert has
\* severity HIGH, escalationLevel 1, resolved = false, resolvedAt = null and
\* the providerId of the snapshot that triggered it.
C10_AlertLifecycle ==
    /\ [](\A a \in DOMAIN alertStorage : Alert(a).escalationLevel \in 1..3)
    /\ [][\A a \in DOMAIN alertStorage :
            /\ a \in DOMAIN alertStorage'
            /\ alertStorage'[a].escalationLevel >= Alert(a).escalationLevel
            /\ Alert(a).resolved => alertStorage'[a] = Alert(a)
         ]_vars
    /\ [][\A a \in DOMAIN alertStorage' \ DOMAIN alertStorage :
            /\ alertStorage'[a].severity = HIGH
            /\ alertStorage'[a].escalationLevel = 1
            /\ alertStorage'[a].resolved = FALSE
            /\ alertStorage'[a].resolvedAt = Null
            /\ alertStorage'[a].providerId = metrics'[1].recordedById
            /\ alertStorage'[a].maternalProfileId = metrics'[1].maternalProfileId
         ]_vars

\* an alert was created for a snapshot that names no recording provider
C10_Witness ==
    \E a \in DOMAIN alertStorage : Alert(a).providerId = Undefined

====
